---- MODULE Spec2Model ----
(***************************************************************************)
(* A model of pyps2000b/PS2000B.py: the telegram codec (Telegram,          *)
(* ToPowerSupply, FromPowerSupply), the decoding helpers and the PS2000B   *)
(* session, together with the power supply at the other end of the serial  *)
(* line.                                                                   *)
(*                                                                         *)
(* Bytes are integers, byte strings and Python lists are sequences.  A     *)
(* Python exception is the field "raised" of a result: "" when nothing was *)
(* raised, the exception's class otherwise.                                *)
(***************************************************************************)
EXTENDS Integers, Sequences, FiniteSets, TLC

(***************************************************************************)
(* Python's integer and list primitives.                                   *)
(***************************************************************************)

\* x | y, x & y and x & ~y on naturals, bit by bit.
RECURSIVE OrNat(_, _)
OrNat(x, y) ==
    IF x = 0 THEN y
    ELSE IF y = 0 THEN x
    ELSE (IF (x % 2 = 1) \/ (y % 2 = 1) THEN 1 ELSE 0) + 2 * OrNat(x \div 2, y \div 2)

RECURSIVE AndNat(_, _)
AndNat(x, y) ==
    IF x = 0 \/ y = 0 THEN 0
    ELSE (IF (x % 2 = 1) /\ (y % 2 = 1) THEN 1 ELSE 0) + 2 * AndNat(x \div 2, y \div 2)

RECURSIVE AndNotNat(_, _)
AndNotNat(x, y) ==
    IF x = 0 THEN 0
    ELSE (IF (x % 2 = 1) /\ (y % 2 = 0) THEN 1 ELSE 0) + 2 * AndNotNat(x \div 2, y \div 2)

\* Python's | and & on its unbounded two's-complement integers (~x = -x-1).
BitOr(x, y) ==
    IF x >= 0 /\ y >= 0 THEN OrNat(x, y)
    ELSE IF x < 0 /\ y >= 0 THEN -AndNotNat(-x - 1, y) - 1
    ELSE IF x >= 0 /\ y < 0 THEN -AndNotNat(-y - 1, x) - 1
    ELSE -AndNat(-x - 1, -y - 1) - 1

BitAnd(x, y) ==
    IF x >= 0 /\ y >= 0 THEN AndNat(x, y)
    ELSE IF x < 0 /\ y >= 0 THEN AndNotNat(y, -x - 1)
    ELSE IF x >= 0 /\ y < 0 THEN AndNotNat(x, -y - 1)
    ELSE -OrNat(-x - 1, -y - 1) - 1

RECURSIVE Pow2(_)
Pow2(n) == IF n <= 0 THEN 1 ELSE 2 * Pow2(n - 1)

\* x << n and x >> n (>> floors, also for a negative x).
ShiftLeft(x, n) == x * Pow2(n)
ShiftRight(x, n) == x \div Pow2(n)

\* A slice bound as Python clamps it: negative bounds count from the end.
PyIndex(n, i) ==
    IF i < 0 THEN (IF i + n < 0 THEN 0 ELSE i + n)
    ELSE (IF i > n THEN n ELSE i)

\* s[i:j] with 0-based bounds.
PySlice(s, i, j) ==
    LET a == PyIndex(Len(s), i)
        b == PyIndex(Len(s), j)
    IN  IF a >= b THEN << >> ELSE SubSeq(s, a + 1, b)

RECURSIVE SumBytes(_)
SumBytes(s) == IF s = << >> THEN 0 ELSE Head(s) + SumBytes(Tail(s))

\* bytearray(list) accepts only integers in range(0, 256).
IsByteList(s) == \A i \in 1..Len(s) : s[i] >= 0 /\ s[i] <= 255

(***************************************************************************)
(* Constants, Objects, ControlParameters.                                  *)
(***************************************************************************)
DEVICE_NODE == 0

\* A read that takes no more than a frame without data has.
MAX_LEN_IN_BYTES_no_data == 3 + 2

MAX_LEN_IN_BYTES == 21

DEVICE_TYPE == 0
DEVICE_SERIAL_NO == 1
NOMINAL_VOLTAGE == 2
NOMINAL_CURRENT == 3
NOMINAL_POWER == 4
DEVICE_ARTICLE_NO == 6
MANUFACTURER == 8
SOFTWARE_VERSION == 9
SET_VALUE_VOLTAGE == 50
SET_VALUE_CURRENT == 51
POWER_SUPPLY_CONTROL == 54
STATUS_ACTUAL_VALUES == 71

SWITCH_MODE_CMD == 16
SWITCH_MODE_REMOTE == 16
SWITCH_MODE_MANUAL == 0
SWITCH_POWER_OUTPUT_CMD == 1
SWITCH_POWER_OUTPUT_ON == 1
SWITCH_POWER_OUTPUT_OFF == 0

(***************************************************************************)
(* Telegram, ToPowerSupply, FromPowerSupply.                               *)
(***************************************************************************)

\* A checksum with its two bytes in the wrong order.
calc_checksum_low_first(bytes) ==
    LET cs == SumBytes(bytes)
    IN  << BitAnd(cs, 255), ShiftRight(BitAnd(cs, 65280), 8) >>

\* A checksum that keeps only seven bits of the sum.
calc_checksum_seven_bits(bytes) == << 0, SumBytes(bytes) % 128 >>

\* Telegram._calc_checksum over the telegram's _bytes.
calc_checksum(bytes) ==
    LET cs == SumBytes(bytes)
        cs_high == ShiftRight(BitAnd(cs, 65280), 8)
        cs_low == BitAnd(cs, 255)
    IN  << cs_high, cs_low >>

\* A start delimiter that carries the expected length itself in its low bits.
get_start_delimiter_plain(transmission, expected_data_length) ==
    IF expected_data_length > 16
    THEN [raised |-> "Exception", value |-> 0]
    ELSE [raised |-> "",
          value |-> BitOr(BitOr(BitOr(BitOr(0, expected_data_length), 16), 32),
                          ShiftLeft(transmission, 6))]

\* Telegram._get_start_delimiter: only the upper bound of the length is tested.
get_start_delimiter(transmission, expected_data_length) ==
    IF expected_data_length > 16
    THEN [raised |-> "Exception", value |-> 0]
    ELSE [raised |-> "",
          value |-> BitOr(BitOr(BitOr(BitOr(0, expected_data_length - 1), 16), 32),
                          ShiftLeft(transmission, 6))]

\* Telegram.__init__: the telegram before a subclass fills it.
Telegram == [raised |-> "", bytes |-> << >>, checksum |-> << >>, checksum_ok |-> FALSE]

\* ToPowerSupply.__init__.
ToPowerSupply(transmission, data, expected_data_length) ==
    LET sd == get_start_delimiter(transmission, expected_data_length)
        bytes == << sd.value >> \o data
    IN  IF sd.raised # ""
        THEN [Telegram EXCEPT !.raised = sd.raised]
        ELSE [raised |-> "", bytes |-> bytes, checksum |-> calc_checksum(bytes),
              checksum_ok |-> TRUE]

\* Telegram.get_byte_array: bytearray() raises on an element outside 0..255.
get_byte_array(telegram) ==
    LET all == telegram.bytes \o telegram.checksum
    IN  IF IsByteList(all)
        THEN [raised |-> "", value |-> all]
        ELSE [raised |-> "ValueError", value |-> << >>]

\* A decoder that refuses a frame whose checksum does not match.
FromPowerSupply_strict(raw_data) ==
    LET bytes == PySlice(raw_data, 0, -2)
        checksum == PySlice(raw_data, Len(raw_data) - 2, Len(raw_data))
    IN  [raised |-> IF checksum = calc_checksum(bytes) THEN "" ELSE "ChecksumError",
         bytes |-> bytes, checksum |-> checksum,
         checksum_ok |-> (checksum = calc_checksum(bytes))]

\* FromPowerSupply.__init__ (_ord is the identity on Python 3 bytes).
FromPowerSupply(raw_data) ==
    LET data == raw_data
        bytes == PySlice(data, 0, -2)
        checksum == PySlice(data, Len(data) - 2, Len(data))
    IN  [raised |-> "", bytes |-> bytes, checksum |-> checksum,
         checksum_ok |-> (checksum = calc_checksum(bytes))]

\* FromPowerSupply.get_data.
get_data(telegram) == PySlice(telegram.bytes, 3, Len(telegram.bytes))

(***************************************************************************)
(* Python floats that the model meets are exact fractions num/den with     *)
(* den > 0, kept in lowest terms so that equal values are equal records.   *)
(***************************************************************************)
RECURSIVE Gcd(_, _)
Gcd(a, b) == IF b = 0 THEN a ELSE Gcd(b, a % b)

Abs(x) == IF x < 0 THEN -x ELSE x

Frac(n, d) ==
    LET g == Gcd(Abs(n), Abs(d))
        s == IF d < 0 THEN -1 ELSE 1
    IN  [num |-> (s * n) \div g, den |-> (s * d) \div g]

FracMul(a, b) == Frac(a.num * b.num, a.den * b.den)

\* a / b for b # 0.
FracDiv(a, b) == Frac(a.num * b.den, a.den * b.num)

FracInt(n) == [num |-> n, den |-> 1]

\* int(round(x)): Python 3 rounds a tie to the even neighbour.
RoundHalfEven(x) ==
    LET q == x.num \div x.den
        r == x.num % x.den
    IN  IF 2 * r < x.den THEN q
        ELSE IF 2 * r > x.den THEN q + 1
        ELSE IF q % 2 = 0 THEN q ELSE q + 1

(***************************************************************************)
(* as_string, as_float, as_word.                                           *)
(***************************************************************************)

\* as_string: the raw data without its last byte.
as_string(raw_data) == [raised |-> "", value |-> PySlice(raw_data, 0, -1)]

\* as_float: struct.unpack_from(">f") of the first four bytes, a big-endian
\* IEEE-754 single (sign, 8 exponent bits, 23 fraction bits).  The devices of
\* the model report finite values whose exponent keeps the fraction in range.
as_float(raw_data) ==
    IF Len(raw_data) < 4
    THEN [raised |-> "struct.error", value |-> FracInt(0)]
    ELSE LET bits == (((raw_data[1] % 128) * 256 + raw_data[2]) * 256 + raw_data[3]) * 256 + raw_data[4]
             sign == IF raw_data[1] >= 128 THEN -1 ELSE 1
             e == bits \div 8388608
             m == bits % 8388608
             v == IF e = 0 /\ m = 0 THEN FracInt(0)
                  ELSE IF e >= 150 THEN FracInt(sign * (8388608 + m) * Pow2(e - 150))
                  ELSE Frac(sign * (8388608 + m), Pow2(150 - e))
         IN  [raised |-> "", value |-> v]

\* as_word: struct.unpack_from(">H") of the first two bytes.
as_word(raw_data) ==
    IF Len(raw_data) < 2
    THEN [raised |-> "struct.error", value |-> 0]
    ELSE [raised |-> "", value |-> raw_data[1] * 256 + raw_data[2]]

(***************************************************************************)
(* DeviceInformation, DeviceStatusInformation.                             *)
(***************************************************************************)

\* DeviceInformation.__init__.
DeviceInformation ==
    [device_type |-> << >>, device_serial_no |-> << >>,
     nominal_voltage |-> FracInt(0), nominal_current |-> FracInt(0),
     nominal_power |-> FracInt(0), manufacturer |-> << >>,
     device_article_number |-> << >>, software_version |-> << >>]

\* The status cache before the first refresh: Python's None.
None ==
    [raised |-> "", is_none |-> TRUE, remote_control_active |-> 0, output_active |-> 0,
     actual_voltage_percent |-> FracInt(0), actual_current_percent |-> FracInt(0)]

\* DeviceStatusInformation.__init__: the four fields are read in this order,
\* and the first one that cannot be read raises.
DeviceStatusInformation(raw_data) ==
    LET v == as_word(PySlice(raw_data, 2, 4))
        c == as_word(PySlice(raw_data, 4, 6))
    IN  IF Len(raw_data) < 2 THEN [None EXCEPT !.raised = "IndexError"]
        ELSE IF v.raised # "" THEN [None EXCEPT !.raised = v.raised]
        ELSE IF c.raised # "" THEN [None EXCEPT !.raised = c.raised]
        ELSE [raised |-> "", is_none |-> FALSE,
              remote_control_active |-> BitAnd(raw_data[1], 1),
              output_active |-> BitAnd(raw_data[2], 1),
              actual_voltage_percent |-> Frac(v.value, 256),
              actual_current_percent |-> Frac(c.value, 256)]

(***************************************************************************)
(* The power supply at the other end of the serial line.  It is not part   *)
(* of the repository: it answers a query with the object's data, applies a *)
(* control telegram and acknowledges it.  A reply may also fail to arrive, *)
(* arrive cut short or arrive with a wrong checksum.                       *)
(***************************************************************************)

\* How many replies of one run may be faulty.
MaxFaults == 1

FaultKinds == {"none", "silent", "short", "badsum"}

\* What the device reports about itself: how it pads its strings, and its
\* ratings as big-endian IEEE-754 singles (42.0, 10.0, 160.0, or all 0.0).
Profiles ==
    { [strings |-> "terminated", nominal_voltage |-> << 66, 40, 0, 0 >>,
       nominal_current |-> << 65, 32, 0, 0 >>, nominal_power |-> << 67, 32, 0, 0 >>],
      [strings |-> "padded", nominal_voltage |-> << 0, 0, 0, 0 >>,
       nominal_current |-> << 0, 0, 0, 0 >>, nominal_power |-> << 0, 0, 0, 0 >>] }

StringObjects == {DEVICE_TYPE, DEVICE_SERIAL_NO, DEVICE_ARTICLE_NO, MANUFACTURER, SOFTWARE_VERSION}

\* The text of a string object ("PS0", "PS1", ...), NUL-terminated or
\* NUL-padded to the 16 bytes of the field.
DeviceText(p, obj) ==
    LET text == << 80, 83, 48 + obj >>
    IN  IF p.strings = "terminated" THEN text \o << 0 >>
        ELSE text \o [k \in 1..13 |-> 0]

\* The device after power-up: manual mode, output off, setpoints 0.
DeviceInit == [remote |-> 0, output |-> 0, vset |-> 0, iset |-> 0]

\* The data of an object as the device holds it.
DeviceData(p, d, obj) ==
    IF obj \in StringObjects THEN DeviceText(p, obj)
    ELSE IF obj = NOMINAL_VOLTAGE THEN p.nominal_voltage
    ELSE IF obj = NOMINAL_CURRENT THEN p.nominal_current
    ELSE IF obj = NOMINAL_POWER THEN p.nominal_power
    ELSE IF obj = SET_VALUE_VOLTAGE THEN << d.vset \div 256, d.vset % 256 >>
    ELSE IF obj = SET_VALUE_CURRENT THEN << d.iset \div 256, d.iset % 256 >>
    ELSE IF obj = STATUS_ACTUAL_VALUES
         THEN LET v == IF d.output = 1 THEN d.vset ELSE 0
                  c == IF d.output = 1 THEN d.iset ELSE 0
              IN  << d.remote, d.output, v \div 256, v % 256, c \div 256, c % 256 >>
    ELSE << 0 >>

\* A reply telegram: start delimiter, node, object, data, 16-bit sum.
DeviceTelegram(obj, data) ==
    LET body == << 128 + 32 + (Len(data) - 1), DEVICE_NODE, obj >> \o data
        sum == SumBytes(body)
    IN  body \o << (sum \div 256) % 256, sum % 256 >>

\* The device state after a request: a control telegram (transmission type
\* 0b11) switches the mode or the output, or stores a setpoint.
DeviceApply(d, request) ==
    IF Len(request) < 7 \/ request[1] \div 64 # 3 THEN d
    ELSE LET obj == request[3]
             p1 == request[4]
             p2 == request[5]
         IN  IF obj = POWER_SUPPLY_CONTROL /\ p1 = SWITCH_MODE_CMD
             THEN [d EXCEPT !.remote = IF p2 = SWITCH_MODE_REMOTE THEN 1 ELSE 0]
             ELSE IF obj = POWER_SUPPLY_CONTROL /\ p1 = SWITCH_POWER_OUTPUT_CMD
             THEN [d EXCEPT !.output = IF p2 = SWITCH_POWER_OUTPUT_ON THEN 1 ELSE 0]
             ELSE IF obj = SET_VALUE_VOLTAGE THEN [d EXCEPT !.vset = p1 * 256 + p2]
             ELSE IF obj = SET_VALUE_CURRENT THEN [d EXCEPT !.iset = p1 * 256 + p2]
             ELSE d

\* The device's reply to a request, computed from its state after the request.
DeviceReply(p, d, request) ==
    IF Len(request) < 5 THEN << >>
    ELSE IF request[1] \div 64 = 3 THEN DeviceTelegram(255, << 0 >>)
    ELSE DeviceTelegram(request[3], DeviceData(p, d, request[3]))

\* What of a reply reaches the serial port.
Delivered(reply, fault) ==
    IF fault = "silent" THEN << >>
    ELSE IF fault = "short" THEN PySlice(reply, 0, -3)
    ELSE IF fault = "badsum" /\ reply # << >>
         THEN [reply EXCEPT ![Len(reply)] = (reply[Len(reply)] + 1) % 256]
    ELSE reply

(***************************************************************************)
(* The state.                                                              *)
(***************************************************************************)
VARIABLES
    lifecycle,                  \* "Connecting" (in __init__), "Ready", or "Failed" (__init__ raised)
    result,                     \* the DeviceInformation __read_device_information is filling
    device_information,         \* self.__device_information
    device_status_information,  \* self.__device_status_information
    call,                       \* per caller: the method it runs or ran last
    prev,                       \* per caller: whether its call repeats the one before
    rx,                         \* bytes waiting in the serial port's input buffer
    dev,                        \* the device's mode, output and setpoints
    profile,                    \* the device's identity
    faults,                     \* faulty replies so far
    constructed,                \* the DeviceInformation as __init__ stored it
    cstage, cin, ctel, craw, cdec   \* the codec on its own: an input and its stages

session_vars ==
    << lifecycle, result, device_information, device_status_information, call, prev,
       rx, dev, profile, faults, constructed >>

codec_vars == << cstage, cin, ctel, craw, cdec >>

vars == << session_vars, codec_vars >>

(***************************************************************************)
(* PS2000B: what each method sends.  A method is the sequence of the       *)
(* exchanges (__send_and_receive calls) it makes, in order; an exchange    *)
(* names the function that builds its telegram (fn, with arguments a and   *)
(* b) and what is done with the reply (use).                               *)
(***************************************************************************)

Exchange(fn, a, b, convert, use) ==
    [fn |-> fn, a |-> a, b |-> b, convert |-> convert, use |-> use]

\* __read_device_data(expected_length, object_id); the caller uses the reply.
read_device_data(expected_length, object_id, use) ==
    << Exchange("read_device_data", expected_length, object_id, "", use) >>

\* A refresh that also reads the nominal voltage again.
update_device_information_rereads ==
    << Exchange("read_device_data", 4, NOMINAL_VOLTAGE, "", "nominal_voltage"),
       Exchange("update_device_information", 6, STATUS_ACTUAL_VALUES, "", "status") >>

\* update_device_information.
update_device_information ==
    << Exchange("update_device_information", 6, STATUS_ACTUAL_VALUES, "", "status") >>

\* A control method that refreshes the status before it sends the telegram.
send_device_control_refresh_first(p1, p2) ==
    update_device_information
    \o << Exchange("send_device_control", p1, p2, "", "discard") >>

\* __send_device_control(p1, p2): the reply is dropped, the status refreshed.
send_device_control(p1, p2) ==
    << Exchange("send_device_control", p1, p2, "", "discard") >>
    \o update_device_information

\* __send_device_data(obj, data), with data converted by the caller from
\* value and the nominal rating named by convert.
send_device_data(obj, convert, value) ==
    << Exchange("send_device_data", obj, value, convert, "discard") >>
    \o update_device_information

\* An identity read that asks for the manufacturer before the article number.
read_device_information_reordered ==
    read_device_data(16, DEVICE_TYPE, "device_type")
    \o read_device_data(16, DEVICE_SERIAL_NO, "device_serial_no")
    \o read_device_data(4, NOMINAL_VOLTAGE, "nominal_voltage")
    \o read_device_data(4, NOMINAL_CURRENT, "nominal_current")
    \o read_device_data(4, NOMINAL_POWER, "nominal_power")
    \o read_device_data(16, MANUFACTURER, "manufacturer")
    \o read_device_data(16, DEVICE_ARTICLE_NO, "device_article_number")
    \o read_device_data(16, SOFTWARE_VERSION, "software_version")

\* __read_device_information.
read_device_information ==
    read_device_data(16, DEVICE_TYPE, "device_type")
    \o read_device_data(16, DEVICE_SERIAL_NO, "device_serial_no")
    \o read_device_data(4, NOMINAL_VOLTAGE, "nominal_voltage")
    \o read_device_data(4, NOMINAL_CURRENT, "nominal_current")
    \o read_device_data(4, NOMINAL_POWER, "nominal_power")
    \o read_device_data(16, DEVICE_ARTICLE_NO, "device_article_number")
    \o read_device_data(16, MANUFACTURER, "manufacturer")
    \o read_device_data(16, SOFTWARE_VERSION, "software_version")

\* A status getter that refreshes on every call.
get_device_status_information_eager(status) == update_device_information

\* get_device_status_information: refreshes only an empty cache.
get_device_status_information(status) ==
    IF status.is_none THEN update_device_information ELSE << >>

enable_remote_control == send_device_control(SWITCH_MODE_CMD, SWITCH_MODE_REMOTE)

disable_remote_control == send_device_control(SWITCH_MODE_CMD, SWITCH_MODE_MANUAL)

enable_output == send_device_control(SWITCH_POWER_OUTPUT_CMD, SWITCH_POWER_OUTPUT_ON)

\* A disable_output that does nothing when the output is cached as off.
disable_output_short_circuit ==
    IF ~device_status_information.is_none /\ device_status_information.output_active = 0
    THEN << >>
    ELSE send_device_control(SWITCH_POWER_OUTPUT_CMD, SWITCH_POWER_OUTPUT_OFF)

disable_output == send_device_control(SWITCH_POWER_OUTPUT_CMD, SWITCH_POWER_OUTPUT_OFF)

\* A get_voltage that refreshes only an empty cache.
get_voltage_lazy == get_device_status_information(device_status_information)

get_voltage == update_device_information

\* A setpoint read that refreshes the status afterwards.
get_voltage_setpoint_refreshing ==
    read_device_data(2, SET_VALUE_VOLTAGE, "voltage_setpoint") \o update_device_information

get_voltage_setpoint == read_device_data(2, SET_VALUE_VOLTAGE, "voltage_setpoint")

\* A set_voltage that only sends the setpoint and refreshes.
set_voltage_setpoint_only(value) ==
    send_device_data(SET_VALUE_VOLTAGE, "nominal_voltage", value)

set_voltage(value) ==
    update_device_information
    \o enable_remote_control
    \o send_device_data(SET_VALUE_VOLTAGE, "nominal_voltage", value)

get_current == update_device_information

get_curent_setpoint == read_device_data(2, SET_VALUE_CURRENT, "current_setpoint")

\* A set_current that leaves out the remote-control telegram when the cached
\* status already reports remote control.
set_current_skip_enable(value) ==
    IF ~device_status_information.is_none /\ device_status_information.remote_control_active = 1
    THEN update_device_information
         \o send_device_data(SET_VALUE_CURRENT, "nominal_current", value)
    ELSE update_device_information
         \o enable_remote_control
         \o send_device_data(SET_VALUE_CURRENT, "nominal_current", value)

set_current(value) ==
    update_device_information
    \o enable_remote_control
    \o send_device_data(SET_VALUE_CURRENT, "nominal_current", value)

\* The public methods a caller may invoke on a constructed session.  The
\* properties output, voltage and current call the methods of the same
\* name: their getters and setters are these methods.
Methods ==
    {"get_device_information", "get_device_status_information", "output",
     "update_device_information", "enable_remote_control", "disable_remote_control",
     "enable_output", "disable_output", "get_voltage", "get_voltage_setpoint",
     "set_voltage", "get_current", "get_curent_setpoint", "set_current"}

\* The exchanges of one call of a method, decided when it is entered.
Program(name, value, status) ==
    CASE name = "__init__" -> read_device_information
      [] name = "get_device_information" -> << >>
      [] name = "get_device_status_information" -> get_device_status_information(status)
      [] name = "output" -> get_device_status_information(status)
      [] name = "update_device_information" -> update_device_information
      [] name = "enable_remote_control" -> enable_remote_control
      [] name = "disable_remote_control" -> disable_remote_control
      [] name = "enable_output" -> enable_output
      [] name = "disable_output" -> disable_output
      [] name = "get_voltage" -> get_voltage
      [] name = "get_voltage_setpoint" -> get_voltage_setpoint
      [] name = "set_voltage" -> set_voltage(value)
      [] name = "get_current" -> get_current
      [] name = "get_curent_setpoint" -> get_curent_setpoint
      [] name = "set_current" -> set_current(value)
      [] OTHER -> << >>

(***************************************************************************)
(* The telegram of an exchange.                                            *)
(***************************************************************************)

\* __read_device_data, line 239.
read_device_data_telegram(expected_length, object_id) ==
    ToPowerSupply(1, << DEVICE_NODE, object_id >>, expected_length)

\* update_device_information, line 256.
update_device_information_telegram ==
    ToPowerSupply(1, << DEVICE_NODE, STATUS_ACTUAL_VALUES >>, 6)

\* __send_device_control, line 261.
send_device_control_telegram(p1, p2) ==
    ToPowerSupply(3, << DEVICE_NODE, POWER_SUPPLY_CONTROL, p1, p2 >>, 2)

\* __send_device_data, line 269.
send_device_data_telegram(obj, data) ==
    ToPowerSupply(3, << DEVICE_NODE, obj, ShiftRight(data, 8), BitAnd(data, 255) >>, 4)

\* set_voltage and set_current: int(round((value * 25600.0) / nominal)); the
\* float division raises on a nominal rating of 0.
setpoint_raw(value, nominal) ==
    IF nominal.num = 0
    THEN [raised |-> "ZeroDivisionError", value |-> 0]
    ELSE [raised |-> "", value |-> RoundHalfEven(FracDiv(FracInt(value * 25600), nominal))]

\* The bytes an exchange hands to serial.write, or the exception raised
\* before anything is written.
OutboundBytes(x, information) ==
    LET conv == IF x.fn = "send_device_data"
                THEN setpoint_raw(x.b, information[x.convert])
                ELSE [raised |-> "", value |-> 0]
        telegram ==
            CASE x.fn = "read_device_data" -> read_device_data_telegram(x.a, x.b)
              [] x.fn = "update_device_information" -> update_device_information_telegram
              [] x.fn = "send_device_control" -> send_device_control_telegram(x.a, x.b)
              [] OTHER -> send_device_data_telegram(x.a, conv.value)
    IN  IF conv.raised # "" THEN [raised |-> conv.raised, value |-> << >>]
        ELSE IF telegram.raised # "" THEN [raised |-> telegram.raised, value |-> << >>]
        ELSE get_byte_array(telegram)

(***************************************************************************)
(* What a method does with a reply, and what it returns.                   *)
(***************************************************************************)

StringFields ==
    {"device_type", "device_serial_no", "device_article_number", "manufacturer",
     "software_version"}

\* get_voltage_setpoint / get_curent_setpoint: res[0] and res[1] of the data.
setpoint_value(res, nominal) ==
    IF Len(res) < 2
    THEN [raised |-> "IndexError", value |-> FracInt(0)]
    ELSE [raised |-> "",
          value |-> FracMul(FracMul(nominal, FracInt(ShiftLeft(res[1], 8) + res[2])),
                            Frac(1, 25600))]

\* A refresh that empties the cache when the reply cannot be decoded.
assign_status_clearing(status, s) == IF s.raised # "" THEN None ELSE s

\* update_device_information, line 258: the attribute is assigned when
\* DeviceStatusInformation(...) has returned, and not when it raised.
assign_status(status, s) == IF s.raised # "" THEN status ELSE s

\* The effect of the reply to exchange x: the status cache, the
\* DeviceInformation being filled by __read_device_information, the number
\* computed from the reply, or the exception raised while decoding it.
Consume(x, telegram, res, status, information) ==
    LET data == get_data(telegram)
        keep == [raised |-> "", status |-> status, result |-> res, number |-> FracInt(0)]
    IN  IF telegram.raised # "" THEN [keep EXCEPT !.raised = telegram.raised]
        ELSE IF x.use = "discard" THEN keep
        ELSE IF x.use = "status"
        THEN LET s == DeviceStatusInformation(data)
             IN  [keep EXCEPT !.raised = s.raised, !.status = assign_status(status, s)]
        ELSE IF x.use = "voltage_setpoint"
        THEN LET v == setpoint_value(data, information.nominal_voltage)
             IN  [keep EXCEPT !.raised = v.raised, !.number = v.value]
        ELSE IF x.use = "current_setpoint"
        THEN LET v == setpoint_value(data, information.nominal_current)
             IN  [keep EXCEPT !.raised = v.raised, !.number = v.value]
        ELSE LET v == IF x.use \in StringFields THEN as_string(data) ELSE as_float(data)
             IN  IF v.raised # "" THEN [keep EXCEPT !.raised = v.raised]
                 ELSE [keep EXCEPT !.result = [res EXCEPT ![x.use] = v.value]]

\* A method's return value: nothing, a number, the status or the identity.
NoReturn == [kind |-> "None", number |-> FracInt(0), status |-> None]

\* get_voltage / get_current: nominal * actual percent, then / 100.
actual_value(nominal, percent) == FracMul(FracMul(nominal, percent), Frac(1, 100))

ReturnValue(name, information, status, number) ==
    CASE name = "get_device_information" -> [NoReturn EXCEPT !.kind = "information"]
      [] name = "get_device_status_information" ->
            [NoReturn EXCEPT !.kind = "status", !.status = status]
      [] name = "output" ->
            [NoReturn EXCEPT !.kind = "number", !.number = FracInt(status.output_active)]
      [] name = "get_voltage" ->
            [NoReturn EXCEPT !.kind = "number",
                !.number = actual_value(information.nominal_voltage, status.actual_voltage_percent)]
      [] name = "get_current" ->
            [NoReturn EXCEPT !.kind = "number",
                !.number = actual_value(information.nominal_current, status.actual_current_percent)]
      [] name \in {"get_voltage_setpoint", "get_curent_setpoint"} ->
            [NoReturn EXCEPT !.kind = "number", !.number = number]
      [] OTHER -> NoReturn

\* The threads that may use the session; MainThread constructs it.
Callers == {"a", "b"}
MainThread == "a"

\* The values a caller passes to set_voltage and set_current.
Values == {12, 200}

\* A caller that has called nothing yet.  A call records the exchanges it
\* has made (log), the status cache as it found it (entry), and whether a
\* call of another thread was running at any time during it (overlapped).
IdleCall ==
    [name |-> "", value |-> 0, prog |-> << >>, phase |-> "idle", outcome |-> "",
     ret |-> NoReturn, log |-> << >>, entry |-> None, overlapped |-> FALSE]

\* A caller's history: whether the call it runs (or ran last) repeats the
\* call it made just before, which returned, and that call's exchanges.
NoPrev == [again |-> FALSE, exchanges |-> 0]

\* A call that has ended: returned, or raised the named exception.
EndCall(cl, outcome, ret) ==
    [cl EXCEPT !.prog = << >>, !.phase = "idle", !.outcome = outcome, !.ret = ret]

CodecIdle ==
    /\ cstage = "idle"
    /\ cin = [transmission |-> 0, data |-> << >>, expected_data_length |-> 0]
    /\ ctel = Telegram
    /\ craw = [raised |-> "", value |-> << >>]
    /\ cdec = Telegram

\* PS2000B.__init__ up to line 213: no status cached, the port open, and
\* __read_device_information about to run.
SessionInit ==
    /\ lifecycle = "Connecting"
    /\ result = DeviceInformation
    /\ device_information = DeviceInformation
    /\ device_status_information = None
    /\ call = [c \in Callers |->
                 IF c = MainThread
                 THEN [IdleCall EXCEPT !.name = "__init__", !.prog = read_device_information,
                                       !.phase = "write", !.outcome = "running"]
                 ELSE IdleCall]
    /\ prev = [c \in Callers |-> NoPrev]
    /\ rx = << >>
    /\ dev = DeviceInit
    /\ profile \in Profiles
    /\ faults = 0
    /\ constructed = DeviceInformation

Init == SessionInit /\ CodecIdle

\* A caller enters a method of the constructed session.  A method that makes
\* no exchange returns at once.
Call(c, name, value) ==
    /\ lifecycle = "Ready"
    /\ call[c].phase = "idle"
    /\ LET prog == Program(name, value, device_status_information)
           cl == [IdleCall EXCEPT !.name = name, !.value = value, !.prog = prog,
                                  !.phase = "write", !.outcome = "running",
                                  !.entry = device_status_information]
           mine == IF prog = << >>
                   THEN EndCall(cl, "returned",
                                ReturnValue(name, device_information,
                                            device_status_information, FracInt(0)))
                   ELSE cl
       IN  call' = [d \in Callers |->
                      IF d = c
                      THEN [mine EXCEPT !.overlapped =
                                \E o \in Callers \ {c} : call[o].outcome = "running"]
                      ELSE IF call[d].outcome = "running"
                      THEN [call[d] EXCEPT !.overlapped = TRUE]
                      ELSE call[d]]
    /\ prev' = [prev EXCEPT ![c] =
                  IF call[c].name = name /\ call[c].value = value /\ call[c].outcome = "returned"
                  THEN [again |-> TRUE, exchanges |-> Len(call[c].log)]
                  ELSE NoPrev]
    /\ UNCHANGED << lifecycle, result, device_information, device_status_information,
                    rx, dev, profile, faults, constructed >>
    /\ UNCHANGED codec_vars

\* __send_and_receive, line 244: the telegram is built and written; the
\* device takes it and its reply, or what arrives of it, enters the port.
\* kinds are the ways the reply may arrive.
WriteWith(c, kinds) ==
    /\ call[c].phase = "write"
    /\ LET cl == call[c]
           x == Head(cl.prog)
           out == OutboundBytes(x, device_information)
       IN  IF out.raised # ""
           THEN /\ call' = [call EXCEPT ![c] = EndCall(cl, out.raised, NoReturn)]
                /\ lifecycle' = IF cl.name = "__init__" THEN "Failed" ELSE lifecycle
                /\ UNCHANGED << rx, dev, faults >>
           ELSE \E f \in kinds :
                /\ f # "none" => faults < MaxFaults
                /\ faults' = IF f = "none" THEN faults ELSE faults + 1
                /\ dev' = DeviceApply(dev, out.value)
                /\ rx' = rx \o Delivered(DeviceReply(profile, dev', out.value), f)
                /\ call' = [call EXCEPT ![c] =
                              [cl EXCEPT !.phase = "read",
                                         !.log = Append(cl.log,
                                            [sent |-> out.value,
                                             reply |-> Delivered(DeviceReply(profile, dev',
                                                                             out.value), f),
                                             received |-> << >>,
                                             read |-> FALSE])]]
                /\ UNCHANGED lifecycle
    /\ UNCHANGED << result, device_information, device_status_information, prev, profile,
                    constructed >>
    /\ UNCHANGED codec_vars

Write(c) == WriteWith(c, FaultKinds)

\* __send_and_receive, line 245, and what the caller does with the reply:
\* up to MAX_LEN_IN_BYTES bytes are read and decoded; after the method's last
\* exchange it returns.
Read(c) ==
    /\ call[c].phase = "read"
    /\ LET cl == call[c]
           x == Head(cl.prog)
           raw == PySlice(rx, 0, MAX_LEN_IN_BYTES)
           telegram == FromPowerSupply(raw)
           got == Consume(x, telegram, result, device_status_information, device_information)
           rest == Tail(cl.prog)
           done == [cl EXCEPT !.log[Len(cl.log)].received = raw,
                              !.log[Len(cl.log)].read = TRUE]
           information == IF cl.name = "__init__" THEN got.result ELSE device_information
       IN  /\ rx' = PySlice(rx, MAX_LEN_IN_BYTES, Len(rx))
           /\ IF got.raised # ""
              THEN /\ call' = [call EXCEPT ![c] = EndCall(done, got.raised, NoReturn)]
                   /\ lifecycle' = IF cl.name = "__init__" THEN "Failed" ELSE lifecycle
                   /\ device_status_information' = got.status
                   /\ UNCHANGED << result, device_information, constructed >>
              ELSE /\ device_status_information' = got.status
                   /\ result' = got.result
                   /\ IF rest = << >>
                      THEN /\ call' = [call EXCEPT ![c] =
                                         EndCall(done, "returned",
                                                 ReturnValue(cl.name, information, got.status,
                                                             got.number))]
                           /\ device_information' = information
                           /\ lifecycle' = IF cl.name = "__init__" THEN "Ready" ELSE lifecycle
                           /\ constructed' = IF cl.name = "__init__" THEN got.result
                                             ELSE constructed
                      ELSE /\ call' = [call EXCEPT ![c] =
                                         [done EXCEPT !.prog = rest, !.phase = "write"]]
                           /\ UNCHANGED << device_information, lifecycle, constructed >>
    /\ UNCHANGED << prev, dev, profile, faults >>
    /\ UNCHANGED codec_vars

\* The session used by one thread: each method runs to its end before the
\* next one is entered.
Next ==
    \/ \E name \in Methods :
         \E value \in (IF name \in {"set_voltage", "set_current"} THEN Values ELSE {0}) :
            Call(MainThread, name, value)
    \/ Write(MainThread)
    \/ Read(MainThread)

Spec == Init /\ [][Next]_vars

(***************************************************************************)
(* The session shared by two threads without a lock: once MainThread has   *)
(* constructed it, each thread calls methods whenever its previous call    *)
(* has ended, and their writes and reads interleave freely.  The line is   *)
(* reliable here: every reply arrives whole.                               *)
(***************************************************************************)

\* The methods the threads call on the shared session.
SharedMethods ==
    {"get_voltage_setpoint", "enable_output"}

WriteReliable(c) == WriteWith(c, {"none"})

NextConcurrent ==
    \/ \E c \in Callers : \E name \in SharedMethods :
         \E value \in (IF name \in {"set_voltage", "set_current"} THEN Values ELSE {0}) :
            Call(c, name, value)
    \/ \E c \in Callers : WriteReliable(c)
    \/ \E c \in Callers : Read(c)

SpecConcurrent == Init /\ [][NextConcurrent]_vars

(***************************************************************************)
(* The codec on its own: a telegram is constructed from arbitrary          *)
(* arguments, turned into bytes, and the bytes are decoded again.          *)
(***************************************************************************)

\* The longest payload and the largest expected length tried.
MaxData == 3
MaxExpected == 17

\* Payload elements: bytes, and one integer that is not a byte.
ByteSamples == {0, 54, 255, 256}

\* The transmission types the session uses: 0b01 (query) and 0b11 (send).
Transmissions == {1, 3}

\* The longest of the long payloads tried: with the start delimiter and the
\* checksum, MAX_LEN_IN_BYTES - 3 bytes make a frame of MAX_LEN_IN_BYTES.
LongestPayload == 19

LongData == { [k \in 1..n |-> 0] : n \in (MAX_LEN_IN_BYTES - 3)..LongestPayload }

DataSamples == UNION { [1..n -> ByteSamples] : n \in 0..MaxData } \cup LongData

InitCodec ==
    /\ SessionInit
    /\ cstage = "input"
    /\ cin \in [transmission : Transmissions, data : DataSamples, expected_data_length : 0..MaxExpected]
    /\ ctel = Telegram
    /\ craw = [raised |-> "", value |-> << >>]
    /\ cdec = Telegram

\* ToPowerSupply(transmission, data, expected_data_length).
Construct ==
    /\ cstage = "input"
    /\ ctel' = ToPowerSupply(cin.transmission, cin.data, cin.expected_data_length)
    /\ cstage' = "constructed"
    /\ UNCHANGED << cin, craw, cdec >>
    /\ UNCHANGED session_vars

\* telegram.get_byte_array() of a constructed telegram.
Serialize ==
    /\ cstage = "constructed"
    /\ ctel.raised = ""
    /\ craw' = get_byte_array(ctel)
    /\ cstage' = "serialized"
    /\ UNCHANGED << cin, ctel, cdec >>
    /\ UNCHANGED session_vars

\* x with bit b inverted.
FlipBit(x, b) == IF (x \div Pow2(b)) % 2 = 1 THEN x - Pow2(b) ELSE x + Pow2(b)

\* The line inverts one bit of one of the bytes before the checksum.
FlipOnLine ==
    /\ cstage = "serialized"
    /\ craw.raised = ""
    /\ \E i \in 1..(Len(craw.value) - 2) : \E b \in 0..7 :
          craw' = [craw EXCEPT !.value[i] = FlipBit(craw.value[i], b)]
    /\ cstage' = "corrupted"
    /\ UNCHANGED << cin, ctel, cdec >>
    /\ UNCHANGED session_vars

\* FromPowerSupply(raw_data) of the bytes, as serialized or as corrupted.
Decode ==
    /\ cstage \in {"serialized", "corrupted"}
    /\ craw.raised = ""
    /\ cdec' = FromPowerSupply(craw.value)
    /\ cstage' = IF cstage = "serialized" THEN "decoded" ELSE "decoded_corrupted"
    /\ UNCHANGED << cin, ctel, craw >>
    /\ UNCHANGED session_vars

NextCodec == Construct \/ Serialize \/ FlipOnLine \/ Decode

SpecCodec == InitCodec /\ [][NextCodec]_vars

(***************************************************************************)
(* Properties.  The telegrams they expect are written out arithmetically,  *)
(* from the wire format, not with the codec's operators.                   *)
(***************************************************************************)

\* The 16-bit sum of a frame's bytes, high byte first.
WireSum(body) == << (SumBytes(body) \div 256) % 256, SumBytes(body) % 256 >>

\* A query (transmission type 0b01) for an object with an expected length.
QueryFrame(obj, len) ==
    LET body == << 64 + 32 + 16 + (len - 1), 0, obj >> IN body \o WireSum(body)

\* A control telegram (transmission type 0b11) for an object.
ControlFrame(obj, params, len) ==
    LET body == << 192 + 32 + 16 + (len - 1), 0, obj >> \o params IN body \o WireSum(body)

StatusQuery == QueryFrame(71, 6)

\* The status a status reply of at least 11 bytes carries.
StatusIn(r) ==
    [raised |-> "", is_none |-> FALSE,
     remote_control_active |-> r[4] % 2, output_active |-> r[5] % 2,
     actual_voltage_percent |-> Frac(r[6] * 256 + r[7], 256),
     actual_current_percent |-> Frac(r[8] * 256 + r[9], 256)]

Main == call[MainThread]

Ended(cl) == cl.outcome \notin {"", "running"}

\* Every exchange of the call but possibly its last has been read.
ReadInTurn(cl) == \A k \in 1..Len(cl.log) : k < Len(cl.log) => cl.log[k].read

AllRead(cl) == \A k \in 1..Len(cl.log) : cl.log[k].read

IdentityQueries ==
    << << 0, 16 >>, << 1, 16 >>, << 2, 4 >>, << 3, 4 >>, << 4, 4 >>, << 6, 16 >>,
       << 8, 16 >>, << 9, 16 >> >>

\* C1: until the session is Ready the only telegrams written are the identity
\* queries 0/16, 1/16, 2/4, 3/4, 4/4, 6/16, 8/16, 9/16, in this order, each
\* read before the next is written; the session is Ready exactly when the
\* constructor has returned, and then all eight have been written and read.
C1_ConstructionQueries ==
    /\ (lifecycle = "Connecting") => (Main.name = "__init__" /\ Main.outcome = "running")
    /\ (Main.name = "__init__") =>
          /\ Len(Main.log) <= 8
          /\ ReadInTurn(Main)
          /\ \A k \in 1..Len(Main.log) :
                Main.log[k].sent = QueryFrame(IdentityQueries[k][1], IdentityQueries[k][2])
          /\ (lifecycle = "Ready") <=> (Main.outcome = "returned")
          /\ (Main.outcome = "returned") => (Len(Main.log) = 8 /\ AllRead(Main))

C1_Witness ==
    /\ lifecycle = "Ready"
    /\ Main.name = "__init__"
    /\ Main.outcome = "returned"
    /\ Len(Main.log) = 8

Setters == {"set_voltage", "set_current"}

SetpointObject(name) == IF name = "set_voltage" THEN 50 ELSE 51

\* C2 as claimed: a set_voltage or set_current call that returned made exactly
\* two exchanges, one control telegram and then one status query.
C2_TwoExchanges ==
    (Main.name \in Setters /\ Main.outcome = "returned") =>
        /\ Len(Main.log) = 2
        /\ Main.log[1].sent[1] \div 64 = 3
        /\ Main.log[2].sent = StatusQuery

\* C2, amended: a set_voltage or set_current call that returned made exactly
\* five exchanges: a status query, the remote-control-enable control telegram,
\* a status query, one setpoint control telegram to object 50 (51), and one
\* final status query.
C2_FiveExchanges ==
    (Main.name \in Setters /\ Main.outcome = "returned") =>
        /\ Len(Main.log) = 5
        /\ AllRead(Main)
        /\ Main.log[1].sent = StatusQuery
        /\ Main.log[2].sent = ControlFrame(54, << 16, 16 >>, 2)
        /\ Main.log[3].sent = StatusQuery
        /\ Len(Main.log[4].sent) = 7
        /\ Main.log[4].sent[1] = 192 + 32 + 16 + 3
        /\ Main.log[4].sent[3] = SetpointObject(Main.name)
        /\ Main.log[5].sent = StatusQuery

C2_Witness ==
    /\ Main.name = "set_voltage"
    /\ Main.value = 12
    /\ Main.outcome = "returned"
    /\ dev.vset = 7314

Switches ==
    {"enable_remote_control", "disable_remote_control", "enable_output", "disable_output"}

SwitchParams(name) ==
    CASE name = "enable_remote_control" -> << 16, 16 >>
      [] name = "disable_remote_control" -> << 16, 0 >>
      [] name = "enable_output" -> << 1, 1 >>
      [] OTHER -> << 1, 0 >>

\* C3: a switching method first writes the control telegram to object 54
\* with its parameter pair and then the status query, and nothing else; when
\* it has returned it has made exactly these two exchanges and the cached
\* status is the one carried by the reply to the second.
C3_SwitchThenStatus ==
    (Main.name \in Switches) =>
        /\ Len(Main.log) <= 2
        /\ ReadInTurn(Main)
        /\ (Len(Main.log) >= 1) =>
              (Main.log[1].sent = ControlFrame(54, SwitchParams(Main.name), 2))
        /\ (Len(Main.log) = 2) => (Main.log[2].sent = StatusQuery)
        /\ (Main.outcome = "returned") =>
              /\ Len(Main.log) = 2
              /\ AllRead(Main)
              /\ device_status_information = StatusIn(Main.log[2].received)

C3_Witness ==
    /\ Main.name = "enable_output"
    /\ Main.outcome = "returned"
    /\ Main.entry.is_none = FALSE
    /\ Main.entry.output_active = 0
    /\ device_status_information.output_active = 1

\* C4: get_voltage and get_current write exactly one status query whatever
\* the cache holds; when they have returned, the cache is the status of the
\* reply and the result is the nominal rating read at construction times the
\* reply's actual-value word / 25600.
C4_FreshActualValue ==
    (Main.name \in {"get_voltage", "get_current"}) =>
        /\ Len(Main.log) = IF Main.phase = "write" THEN 0 ELSE 1
        /\ (Len(Main.log) = 1) => (Main.log[1].sent = StatusQuery)
        /\ (Main.outcome = "returned") =>
              LET r == Main.log[1].received
                  word == IF Main.name = "get_voltage" THEN r[6] * 256 + r[7]
                          ELSE r[8] * 256 + r[9]
                  nominal == IF Main.name = "get_voltage" THEN constructed.nominal_voltage
                             ELSE constructed.nominal_current
              IN  /\ device_status_information = StatusIn(r)
                  /\ Main.ret.kind = "number"
                  /\ Main.ret.number = Frac(nominal.num * word, nominal.den * 25600)

\* get_voltage returned a value that the status cached before the call (an
\* output that was off) does not give.
C4_Witness ==
    /\ Main.name = "get_voltage"
    /\ Main.outcome = "returned"
    /\ Main.entry.is_none = FALSE
    /\ Main.entry.actual_voltage_percent = FracInt(0)
    /\ Main.ret.number = Frac(42 * 7314, 25600)

StatusGetters == {"get_device_status_information", "output"}

\* What a status getter returns for a status.
StatusReturn(name, status) ==
    IF name = "output"
    THEN [NoReturn EXCEPT !.kind = "number", !.number = FracInt(status.output_active)]
    ELSE [NoReturn EXCEPT !.kind = "status", !.status = status]

\* C5, on the calls: get_device_status_information (and the output getter)
\* called with an empty cache writes exactly one status query and returns the
\* status of the reply; called with a cached status it makes no exchange,
\* returns that status and leaves the cache as it was.
C5_LazyStatusCalls ==
    (Main.name \in StatusGetters) =>
        /\ Main.entry.is_none =>
              /\ Len(Main.log) = IF Main.phase = "write" THEN 0 ELSE 1
              /\ (Len(Main.log) = 1) => (Main.log[1].sent = StatusQuery)
              /\ (Main.outcome = "returned") =>
                    /\ device_status_information = StatusIn(Main.log[1].received)
                    /\ Main.ret = StatusReturn(Main.name, device_status_information)
        /\ ~Main.entry.is_none =>
              /\ Main.outcome = "returned"
              /\ Main.log = << >>
              /\ device_status_information = Main.entry
              /\ Main.ret = StatusReturn(Main.name, Main.entry)

\* C5: a status getter refreshes exactly when the cache is empty, and a cache
\* that holds a status is never emptied again.
C5_LazyStatus ==
    /\ []C5_LazyStatusCalls
    /\ [][~device_status_information.is_none => ~device_status_information'.is_none]_vars

\* The getter returned a cached status that no longer agrees with the device.
C5_Witness ==
    /\ Main.name = "get_device_status_information"
    /\ Main.outcome = "returned"
    /\ Main.log = << >>
    /\ Main.ret.status.output_active = 0
    /\ dev.output = 1

SetpointGetters == {"get_voltage_setpoint", "get_curent_setpoint"}

\* C6: get_voltage_setpoint and get_curent_setpoint write exactly one query,
\* for object 50 respectively 51 with expected length 2, and the cached
\* status stays what it was when the method was entered.
C6_SetpointQueryOnly ==
    (Main.name \in SetpointGetters) =>
        /\ Len(Main.log) = IF Main.phase = "write" THEN 0 ELSE 1
        /\ (Len(Main.log) = 1) =>
              (Main.log[1].sent =
                 QueryFrame(IF Main.name = "get_voltage_setpoint" THEN 50 ELSE 51, 2))
        /\ device_status_information = Main.entry

\* A setpoint was read back while the cache was empty, and it stayed empty.
C6_Witness ==
    /\ Main.name = "get_voltage_setpoint"
    /\ Main.outcome = "returned"
    /\ Main.ret.kind = "number"
    /\ Main.entry.is_none
    /\ device_status_information.is_none

IdentityObjects == {0, 1, 2, 3, 4, 6, 8, 9}

\* C7: on a Ready session the DeviceInformation is the one the constructor
\* stored, and no method called on it writes a query for an identity object.
C7_IdentityFrozen ==
    (lifecycle = "Ready") =>
        /\ device_information = constructed
        /\ (Main.name # "__init__") =>
              \A k \in 1..Len(Main.log) :
                 ~(Main.log[k].sent[1] \div 64 = 1 /\ Main.log[k].sent[3] \in IdentityObjects)

C7_Witness ==
    /\ lifecycle = "Ready"
    /\ Main.name = "set_current"
    /\ Main.outcome = "returned"
    /\ dev.vset = 7314
    /\ device_information.nominal_voltage = FracInt(42)
    /\ device_information.device_type = << 80, 83, 48 >>

\* C8 as claimed: two disable_output calls in a row make two exchanges
\* between them and leave the cached output flag off.
C8_TwoRoundTrips ==
    (Main.name = "disable_output" /\ prev[MainThread].again /\ Main.outcome = "returned") =>
        /\ prev[MainThread].exchanges + Len(Main.log) = 2
        /\ device_status_information.output_active = 0

\* C8, amended: the second of two disable_output calls in a row finds the
\* output cached as off and still writes its control telegram; when it has
\* returned, each call has made a control exchange and a status exchange,
\* four in all, and the cached output flag is off, as is the device's output.
C8_RepeatedDisable ==
    (Main.name = "disable_output" /\ prev[MainThread].again) =>
        /\ ~Main.entry.is_none
        /\ Main.entry.output_active = 0
        /\ prev[MainThread].exchanges = 2
        /\ (Main.phase # "write" \/ Ended(Main)) =>
              /\ Len(Main.log) >= 1
              /\ Main.log[1].sent = ControlFrame(54, << 1, 0 >>, 2)
        /\ (Main.outcome = "returned") =>
              /\ Len(Main.log) = 2
              /\ prev[MainThread].exchanges + Len(Main.log) = 4
              /\ device_status_information.output_active = 0
              /\ dev.output = 0

C8_Witness ==
    /\ Main.name = "disable_output"
    /\ prev[MainThread].again
    /\ Main.outcome = "returned"
    /\ Len(Main.log) = 2

\* C9: when a telegram of transmission type 0b01 or 0b11 and expected length
\* 1..16 has been constructed, turned into bytes and decoded, the decoder
\* reports the checksum valid, and the last two bytes are the 16-bit sum of
\* the bytes before them, high byte first.
C9_ChecksumRoundTrip ==
    (cstage = "decoded" /\ cin.transmission \in {1, 3} /\ cin.expected_data_length \in 1..16) =>
        LET n == Len(craw.value)
        IN  /\ cdec.checksum_ok
            /\ n >= 3
            /\ << craw.value[n - 1], craw.value[n] >> = WireSum(SubSeq(craw.value, 1, n - 2))

\* A frame whose sum carries into the high checksum byte.
C9_Witness ==
    /\ cstage = "decoded"
    /\ cin.transmission = 3
    /\ cin.expected_data_length = 16
    /\ cin.data = << 255, 255, 255 >>
    /\ cdec.checksum_ok
    /\ cdec.checksum = << 3, 252 >>

\* C10 as claimed: constructing an outbound telegram raises exactly when the
\* expected data length is outside 1..16.
C10_LengthBound ==
    (cstage \in {"constructed", "serialized", "decoded"}) =>
        ((ctel.raised = "") <=> (cin.expected_data_length \in 1..16))

\* A reply that is empty, or shorter than the frame its own start delimiter
\* announces (3 header bytes, the data, 2 checksum bytes).
Truncated(r) == r = << >> \/ Len(r) < 3 + ((r[1] % 16) + 1) + 2

\* C11 as claimed: a call makes no more exchanges than its method has, and an
\* exchange whose read returned an empty or truncated reply is the call's
\* last one, the call having ended with an exception.
C11_ShortReplyFails ==
    /\ Len(Main.log) <= Len(Program(Main.name, Main.value, Main.entry))
    /\ \A k \in 1..Len(Main.log) :
          (Main.log[k].read /\ Truncated(Main.log[k].received)) =>
              /\ k = Len(Main.log)
              /\ Ended(Main)
              /\ Main.outcome # "returned"

Conversions ==
    {"get_voltage", "get_voltage_setpoint", "set_voltage",
     "get_current", "get_curent_setpoint", "set_current"}

\* The nominal rating a conversion method uses, as stored at construction.
NominalOf(name) ==
    IF name \in {"get_voltage", "get_voltage_setpoint", "set_voltage"}
    THEN constructed.nominal_voltage
    ELSE constructed.nominal_current

\* C12 as claimed: with a nominal rating of 0 read at construction, a call
\* of get_voltage, get_current, get_voltage_setpoint, get_curent_setpoint,
\* set_voltage or set_current never returns, and writes no setpoint telegram.
C12_ZeroNominalFails ==
    (Main.name \in Conversions /\ NominalOf(Main.name) = FracInt(0)) =>
        /\ Main.outcome # "returned"
        /\ \A k \in 1..Len(Main.log) :
              ~(Main.log[k].sent[1] \div 64 = 3 /\ Main.log[k].sent[3] \in {50, 51})

\* C13 as claimed: the bytes of every telegram the codec has constructed and
\* serialized are a start delimiter, the payload and the two bytes of the
\* 16-bit sum, at most 21 bytes in all.
C13_FrameLength ==
    (cstage \in {"serialized", "decoded"} /\ craw.raised = "") =>
        LET n == Len(craw.value)
        IN  /\ n = 1 + Len(cin.data) + 2
            /\ SubSeq(craw.value, 2, n - 2) = cin.data
            /\ << craw.value[n - 1], craw.value[n] >> = WireSum(SubSeq(craw.value, 1, n - 2))
            /\ n <= 21

\* C14 as claimed: a set_voltage or set_current call that returned made four
\* exchanges: a status query, the remote-control-enable telegram, the setpoint
\* telegram, and a final status query.
C14_FourExchanges ==
    (Main.name \in Setters /\ Main.outcome = "returned") =>
        /\ Len(Main.log) = 4
        /\ Main.log[1].sent = StatusQuery
        /\ Main.log[2].sent = ControlFrame(54, << 16, 16 >>, 2)
        /\ Main.log[3].sent[3] = SetpointObject(Main.name)
        /\ Main.log[4].sent = StatusQuery

\* The integer nearest to a / b (b > 0), a tie going to the even one.
Nearest(a, b) ==
    IF 2 * (a % b) < b THEN a \div b
    ELSE IF 2 * (a % b) > b THEN (a \div b) + 1
    ELSE (a \div b) + ((a \div b) % 2)

\* The k-th telegram of set_voltage(value) or set_current(value) on a device
\* with the given nominal rating.
SetterFrame(name, value, nominal, k) ==
    IF k \in {1, 3, 5} THEN StatusQuery
    ELSE IF k = 2 THEN ControlFrame(54, << 16, 16 >>, 2)
    ELSE LET raw == Nearest(value * 25600 * nominal.den, nominal.num)
         IN  ControlFrame(SetpointObject(name), << raw \div 256, raw % 256 >>, 4)

\* C14, amended: the exchanges of set_voltage(v) and set_current(v) are, in
\* this order and each read before the next is written: a status query, the
\* remote-control-enable telegram (object 54, [0x10, 0x10]), the status query
\* that follows it, the setpoint telegram (object 50 resp. 51 with the two
\* bytes of raw = round(v * 25600 / nominal)), and a final status query.  The
\* remote-control-enable telegram is the second telegram of every call,
\* whatever the status read just before reports.
C14_SetterOrder ==
    (Main.name \in Setters) =>
        /\ Len(Main.log) <= 5
        /\ ReadInTurn(Main)
        /\ \A k \in 1..Len(Main.log) :
              Main.log[k].sent = SetterFrame(Main.name, Main.value, NominalOf(Main.name), k)
        /\ (Main.outcome = "returned") => (Len(Main.log) = 5 /\ AllRead(Main))

\* set_current returned although remote control was already active, in the
\* cache and in the status it read first.
C14_Witness ==
    /\ Main.name = "set_current"
    /\ Main.outcome = "returned"
    /\ ~Main.entry.is_none
    /\ Main.entry.remote_control_active = 1
    /\ Main.log[1].received[4] = 1
    /\ Main.log[2].sent = ControlFrame(54, << 16, 16 >>, 2)
    /\ dev.iset = 30720

\* The exchanges of a call that were status queries whose reply was long
\* enough to decode: 3 header bytes, 6 data bytes, 2 checksum bytes.
StatusDecoded(cl) ==
    { k \in 1..Len(cl.log) :
        cl.log[k].read /\ cl.log[k].sent = StatusQuery /\ Len(cl.log[k].received) >= 11 }

Latest(S) == CHOOSE k \in S : \A j \in S : j <= k

\* C15, on the states: the cached status is the one the running (or last)
\* call found on entry, or else the four fields of the latest status reply
\* that call could decode; a refresh that failed changed nothing.
C15_Snapshot ==
    device_status_information =
        IF StatusDecoded(Main) = {} THEN Main.entry
        ELSE StatusIn(Main.log[Latest(StatusDecoded(Main))].received)

\* C15, on the steps: a step that changes the cached status is the read of a
\* status reply, and replaces all of it by that reply's four fields.
C15_Replaced ==
    (device_status_information' # device_status_information) =>
        /\ Main.phase = "read"
        /\ Main.log[Len(Main.log)].sent = StatusQuery
        /\ Len(rx) >= 11
        /\ device_status_information' = StatusIn(rx)

\* C15: the cached status is empty or a snapshot decoded from one status
\* reply, it is only ever replaced as a whole, and a refresh that fails
\* leaves it as it was.
C15_AtomicStatus == []C15_Snapshot /\ [][C15_Replaced]_vars

\* enable_output switched the device's output on, the refresh that followed
\* failed, and the cache still holds the status from before the call.
C15_Witness ==
    /\ Main.name = "enable_output"
    /\ Main.outcome \in {"struct.error", "IndexError"}
    /\ Len(Main.log) = 2
    /\ ~Truncated(Main.log[1].received)
    /\ ~Main.entry.is_none
    /\ Main.entry.output_active = 0
    /\ dev.output = 1
    /\ device_status_information = Main.entry

\* A reply of full length whose last two bytes are not the sum of the others.
Corrupt(r) ==
    /\ ~Truncated(r)
    /\ << r[Len(r) - 1], r[Len(r)] >> # WireSum(SubSeq(r, 1, Len(r) - 2))

\* The exceptions raised while a telegram is built, before it is written.
WriteErrors == {"ZeroDivisionError", "ValueError", "Exception"}

IdentityFields ==
    << "device_type", "device_serial_no", "nominal_voltage", "nominal_current",
       "nominal_power", "device_article_number", "manufacturer", "software_version" >>

\* The ratings the devices report, as big-endian IEEE-754 singles.
WireFloat(d) ==
    CASE d = << 66, 40, 0, 0 >> -> FracInt(42)
      [] d = << 65, 32, 0, 0 >> -> FracInt(10)
      [] d = << 67, 32, 0, 0 >> -> FracInt(160)
      [] OTHER -> FracInt(0)

\* C16: a reply of full length with a wrong checksum is decoded without an
\* exception, with checksum_ok false, and used like any other: the call goes
\* on, a status reply replaces the cached status and is what a status getter
\* returns, an identity reply fills its field of the DeviceInformation, and a
\* setpoint reply gives the number returned.
C16_ChecksumAdvisory ==
    \A k \in 1..Len(Main.log) :
        LET r == Main.log[k].received
            last == (k = Len(Main.log))
        IN  (Main.log[k].read /\ Corrupt(r)) =>
              /\ FromPowerSupply(r).raised = ""
              /\ ~FromPowerSupply(r).checksum_ok
              /\ last => (Main.outcome \in ({"running", "returned"} \cup WriteErrors))
              /\ (last /\ Main.log[k].sent = StatusQuery) =>
                    (device_status_information = StatusIn(r))
              /\ (Main.name \in StatusGetters /\ Main.outcome = "returned") =>
                    (Main.ret = StatusReturn(Main.name, StatusIn(r)))
              /\ (Main.name = "__init__") =>
                    (result[IdentityFields[k]] =
                        IF k \in {3, 4, 5} THEN WireFloat(SubSeq(r, 4, 7))
                        ELSE SubSeq(r, 4, Len(r) - 3))
              /\ (Main.name \in SetpointGetters /\ Main.outcome = "returned") =>
                    (Main.ret.number =
                        Frac(NominalOf(Main.name).num * (r[4] * 256 + r[5]),
                             NominalOf(Main.name).den * 25600))

\* enable_output returned, and the status that now reports the output on was
\* taken from a reply with a wrong checksum.
C16_Witness ==
    /\ Main.name = "enable_output"
    /\ Main.outcome = "returned"
    /\ Corrupt(Main.log[2].received)
    /\ ~Main.entry.is_none
    /\ Main.entry.output_active = 0
    /\ device_status_information.output_active = 1

\* x limited to the 16-bit unsigned range.
Clamp16(x) == IF x < 0 THEN 0 ELSE IF x > 65535 THEN 65535 ELSE x

\* C17 as claimed: whatever value set_voltage or set_current is given, on a
\* device with a nominal rating other than 0 the setpoint telegram can be
\* encoded, and it carries the two bytes of round(value * 25600 / nominal)
\* clamped to 0..65535.
C17_SetpointEncodable ==
    (Main.name \in Setters /\ NominalOf(Main.name).num # 0) =>
        /\ Main.outcome # "ValueError"
        /\ (Len(Main.log) >= 4) =>
              LET raw == Clamp16(Nearest(Main.value * 25600 * NominalOf(Main.name).den,
                                         NominalOf(Main.name).num))
              IN  Main.log[4].sent =
                     ControlFrame(SetpointObject(Main.name), << raw \div 256, raw % 256 >>, 4)

\* C18: the first byte of a telegram constructed with transmission type T in
\* {0b01, 0b11} and expected length L in 1..16 is a byte whose bits 7..6 are
\* T, whose bits 5 and 4 are 1 and whose bits 3..0 are L - 1.
C18_StartDelimiter ==
    (cstage # "input" /\ cin.transmission \in {1, 3} /\ cin.expected_data_length \in 1..16) =>
        /\ ctel.raised = ""
        /\ LET sd == ctel.bytes[1]
           IN  /\ sd \in 0..255
               /\ sd \div 64 = cin.transmission
               /\ (sd \div 32) % 2 = 1
               /\ (sd \div 16) % 2 = 1
               /\ (sd % 16) + 1 = cin.expected_data_length

\* The largest length with the transmission type 0b11: all eight bits set.
C18_Witness ==
    /\ cstage = "constructed"
    /\ cin.transmission = 3
    /\ cin.expected_data_length = 16
    /\ ctel.bytes[1] = 255

\* The positions at which two byte strings of the same length differ.
Differ(s, t) == { i \in 1..Len(s) : s[i] # t[i] }

\* C19: a frame that was encoded, had one bit of one byte before its two
\* checksum bytes inverted, and was then decoded, is reported with
\* checksum_ok false.
C19_BitFlipDetected ==
    (cstage = "decoded_corrupted") =>
        /\ Len(craw.value) = Len(ctel.bytes) + 2
        /\ Cardinality(Differ(craw.value, ctel.bytes \o ctel.checksum)) = 1
        /\ Differ(craw.value, ctel.bytes \o ctel.checksum) \subseteq 1..Len(ctel.bytes)
        /\ ~cdec.checksum_ok

\* The top bit of a payload byte was cleared: the sum changes by 128.
C19_Witness ==
    /\ cstage = "decoded_corrupted"
    /\ cin.data = << 255, 255, 255 >>
    /\ craw.value[2] = 127
    /\ cdec.checksum = ctel.checksum
    /\ ~cdec.checksum_ok

\* The bytes of a field before its first NUL.
RECURSIVE TextOf(_)
TextOf(d) == IF d = << >> \/ Head(d) = 0 THEN << >> ELSE << Head(d) >> \o TextOf(Tail(d))

\* C20 as claimed: when the constructor has read the reply to a string query
\* that carries a 16-byte field, text followed by NUL padding, the identity
\* field holds exactly the text, without any NUL.
C20_StringDecode ==
    (Main.name = "__init__") =>
        \A k \in 1..Len(Main.log) :
            LET r == Main.log[k].received
            IN  (k \in {1, 2, 6, 7, 8} /\ Main.log[k].read /\ Len(r) = 3 + 16 + 2) =>
                    result[IdentityFields[k]] = TextOf(SubSeq(r, 4, 19))

\* C21: on the shared session, an exchange of a call during which no call of
\* another thread was running consumed exactly the reply to the telegram it
\* had just written: the bytes the device sent for it, which name the object
\* of a query, or 255 for a control telegram.
C21_SerializedRepliesOwn ==
    \A c \in Callers : \A k \in 1..Len(call[c].log) :
        LET x == call[c].log[k]
        IN  (x.read /\ ~call[c].overlapped) =>
              /\ x.received = x.reply
              /\ Len(x.received) >= 6
              /\ x.received[3] = IF x.sent[1] \div 64 = 3 THEN 255 ELSE x.sent[3]

\* Two threads interleaved: the status refresh of enable_output, run by one,
\* read and decoded the reply to the setpoint query of the other (followed
\* by its own reply), so the cache reports the output off on a device whose
\* output is on; the other thread found nothing to read.
C21_Witness ==
    /\ call["a"].name = "enable_output"
    /\ call["a"].outcome = "returned"
    /\ call["b"].name = "get_voltage_setpoint"
    /\ call["b"].outcome = "IndexError"
    /\ call["a"].log[2].sent = StatusQuery
    /\ call["a"].log[2].received = call["b"].log[1].reply \o call["a"].log[2].reply
    /\ call["b"].log[1].received = << >>
    /\ device_status_information = StatusIn(call["b"].log[1].reply \o call["a"].log[2].reply)
    /\ device_status_information.output_active = 0
    /\ dev.output = 1

====
